---- MODULE Spec2Model ----
(***************************************************************************)
(* Model of the durable DevOps workflow of src/demo4.py: the orchestrator  *)
(* orchestrate_automated_devops, its three activities, the kernel tools    *)
(* the analyser agent can call, and the Azure DevOps helpers they share    *)
(* (the same helpers appear, copy-pasted, in src/app.py).                  *)
(*                                                                         *)
(* Python text is a sequence of one-character strings, so that lower(),   *)
(* find(), strip(), replace(), isdigit(), str() and int() are computed on  *)
(* characters. Python's None is the empty tuple and a present value v is  *)
(* the one-element tuple <<v>>.                                            *)
(***************************************************************************)
EXTENDS Integers, Sequences, FiniteSets, TLC

\* ------------------------------------------------------------------ bounds
\* Longest catalog drawn for the external system.
MaxCatalog == 2
\* Longest target_name drawn for a catalog lookup on its own.
MaxIntentLen == 2
\* Tool calls the agent makes during one workflow instance.
MaxToolCalls == 2
\* Responses the agent streams back in one run of activity 2.
MaxResponses == 2
\* Restarts of the durable host during one workflow instance.
MaxCrashes == 1
\* Dispatch tool calls the agent makes for one of several instances.
MaxInstanceToolCalls == 1
\* Pushes one repository accepts.
MaxPushes == 2
\* Run requests the plugin POSTs.
MaxPosts == 2
\* Catalog lookups made one after the other.
MaxLookups == 2
\* Requests the HTTP starter receives.
MaxRequests == 2
\* Times the interactive workflow prompts for a pipeline id.
MaxPrompts == 3

\* ------------------------------------------------------------ Python values
None == <<>>
Some(v) == <<v>>
Val(o) == o[1]

Min(S) == CHOOSE m \in S : \A n \in S : m <= n

UPPER == <<"A","B","C","D","E","F","G","H","I","J","K","L","M",
           "N","O","P","Q","R","S","T","U","V","W","X","Y","Z">>
LOWER == <<"a","b","c","d","e","f","g","h","i","j","k","l","m",
           "n","o","p","q","r","s","t","u","v","w","x","y","z">>
DIGITS == <<"0","1","2","3","4","5","6","7","8","9">>
WHITESPACE == {" ", "\n", "\t"}

\* str.lower(), one character
LowerChar(c) ==
    IF \E i \in 1..Len(UPPER) : UPPER[i] = c
    THEN LOWER[CHOOSE i \in 1..Len(UPPER) : UPPER[i] = c]
    ELSE c

\* str.lower()
Lower(s) == [i \in 1..Len(s) |-> LowerChar(s[i])]

\* s[a:b] with 0 <= a, Python's 0-based half-open slice
Slice(s, a, b) == SubSeq(s, a + 1, IF b > Len(s) THEN Len(s) ELSE b)

\* s.find(sub, start): the lowest 0-based index >= start where sub occurs, or -1
Find(s, sub, start) ==
    LET at == {i \in start..(Len(s) - Len(sub)) : Slice(s, i, i + Len(sub)) = sub}
    IN  IF at = {} THEN -1 ELSE Min(at)

\* sub in s
StrIn(sub, s) == Find(s, sub, 0) # -1

\* s.strip()
RECURSIVE LStrip(_)
LStrip(s) == IF s # <<>> /\ Head(s) \in WHITESPACE THEN LStrip(Tail(s)) ELSE s
RECURSIVE RStrip(_)
RStrip(s) ==
    IF s # <<>> /\ s[Len(s)] \in WHITESPACE THEN RStrip(SubSeq(s, 1, Len(s) - 1)) ELSE s
Strip(s) == RStrip(LStrip(s))

\* The character U+00B2, superscript two: one of the characters that are
\* digits to str.isdigit() and are no decimal digit (int() rejects them).
SUPERSCRIPT_TWO == "U+00B2"
DIGIT_NOT_DECIMAL == {SUPERSCRIPT_TWO}

\* A string int() converts: non-empty and every character a decimal digit.
IsDecimal(s) == s # <<>> /\ \A i \in 1..Len(s) : \E d \in 1..10 : DIGITS[d] = s[i]

\* s.isdigit(): non-empty and every character a digit, decimal or not
IsDigit(s) ==
    /\ s # <<>>
    /\ \A i \in 1..Len(s) :
          \/ \E d \in 1..10 : DIGITS[d] = s[i]
          \/ s[i] \in DIGIT_NOT_DECIMAL

\* s.replace(old, new) for a non-empty old: left to right, non-overlapping
RECURSIVE Replace(_, _, _)
Replace(s, old, new) ==
    IF Len(s) < Len(old) THEN s
    ELSE IF SubSeq(s, 1, Len(old)) = old
         THEN new \o Replace(SubSeq(s, Len(old) + 1, Len(s)), old, new)
         ELSE <<Head(s)>> \o Replace(Tail(s), old, new)

\* str(n) for n >= 0
RECURSIVE Str(_)
Str(n) == IF n < 10 THEN <<DIGITS[n + 1]>>
          ELSE Str(n \div 10) \o <<DIGITS[(n % 10) + 1]>>

\* int(s) for a digit string s
RECURSIVE ParseInt(_)
ParseInt(s) ==
    IF s = <<>> THEN 0
    ELSE 10 * ParseInt(SubSeq(s, 1, Len(s) - 1))
         + ((CHOOSE d \in 1..10 : DIGITS[d] = s[Len(s)]) - 1)

\* dict.get(key, default)
DictGet(d, key, default) == IF key \in DOMAIN d THEN d[key] ELSE default

NotFound == <<"N","o","t","F","o","u","n","d">>
DIV_OPEN == <<"<","d","i","v",">">>
DIV_CLOSE == <<"<","/","d","i","v",">">>

\* ------------------------------------------------------------------- state
VARIABLES
    \* the external systems
    catalog,        \* build definitions of the project, in listed order
    ticket,         \* the work item the tracking system holds, or None
    configured,     \* AZURE_DEVOPS_ORG_URL and AZURE_DEVOPS_PAT are set
    runs,           \* the builds queued in the external system, oldest first
    nextBuildId,    \* the id the external system gives the next build
    requests,       \* queue_build requests submitted to the external system
    \* the workflow instance
    workitem_input,         \* context.get_input()
    pc,                     \* the orchestrator's position
    retrieved_description,  \* orchestrator local, None until step 1 returned
    pipeline_id,            \* orchestrator local, None until step 2 returned
    execution_result,       \* orchestrator local, None until step 3 returned
    output,                 \* the orchestration's return value, None until it returns
    \* the durable host
    history,        \* recorded result of each completed activity (1..3), or None
    crashes,        \* host restarts so far
    abandoned,      \* activity invocations a restart cut before they returned
    \* activity 2 in flight: the analyser agent and its tools
    toolCalls,      \* tool calls the agent made for this workflow instance
    lastTool,       \* the last tool call and what it gave back, or None
    analysis,       \* activity 2's loop state while it runs, or None
    \* what was invoked
    calls,          \* invocations of each activity (1..3)
    lookupCalls,    \* calls of get_id_by_name
    dispatchCalls,  \* calls of _execute_pipeline
    lastDispatch,   \* the last _execute_pipeline call and its outcome, or None
    \* a component called on its own
    lastRead,       \* the last work item reader call and what it gave back, or None
    \* several workflow instances at once
    workitems,      \* further work items the tracking system holds
    inst,           \* each instance's orchestrator: input, position, locals, history
    received,       \* what the collaborators answered each instance so far
    \* the other programs of the repository
    repository,     \* src/demo.py: the Git repository, or None
    pushes,         \* src/demo.py: the pushes the repository accepted, oldest first
    lastCommit,     \* src/demo.py: the last commit_to_azure_devops call, or None
    posts,          \* src/demo2.py: run requests POSTed to the pipelines API
    lastPluginCall, \* src/demo2.py: the last execute_pipeline call, or None
    lookupLog,      \* the get_id_by_name calls made one after the other
    stream,         \* activity 2 run on its own: the responses streamed so far
    httpLog,        \* src/demo4.py: the starter's requests and its answers, oldest first
    starts,         \* src/demo4.py: inputs of the orchestrations the starter started
    session         \* src/demo1.py: the interactive workflow's run, or None

vars == <<catalog, ticket, configured, runs, nextBuildId, requests, workitem_input,
          pc, retrieved_description, pipeline_id, execution_result, output,
          history, crashes, abandoned, toolCalls, lastTool, analysis, calls, lookupCalls,
          dispatchCalls, lastDispatch, lastRead, workitems, inst, received,
          repository, pushes, lastCommit, posts, lastPluginCall, lookupLog, stream,
          httpLog, starts, session>>

\* The HTTP starter and the interactive workflow.
frontEnds == <<httpLog, starts, session>>

\* No request was made and the interactive workflow is not running.
FrontEndsIdle ==
    /\ httpLog = <<>>
    /\ starts = <<>>
    /\ session = None

\* What the workflow's steps never touch: the components called on their own.
standalone ==
    <<lastRead, workitems, inst, received, repository, pushes, lastCommit, posts,
      lastPluginCall, lookupLog, stream, frontEnds>>

\* The other programs of the repository, not running.
OthersIdle ==
    /\ repository = None
    /\ pushes = <<>>
    /\ lastCommit = None
    /\ posts = 0
    /\ lastPluginCall = None
    /\ lookupLog = <<>>
    /\ stream = <<>>
    /\ FrontEndsIdle

world == <<catalog, ticket, configured, workitem_input>>
locals == <<retrieved_description, pipeline_id, execution_result>>
dispatchState == <<runs, nextBuildId, requests, dispatchCalls, lastDispatch>>

\* ------------------------------------------------------- the inputs drawn
\* Build definitions the project can hold: id and display name.
PipelineDefs ==
    { [id |-> 2, name |-> <<"V","m">>],
      [id |-> 1, name |-> <<"v","M","x">>],
      [id |-> 3, name |-> <<"d","b">>] }

RECURSIVE SeqsUpTo(_, _)
SeqsUpTo(S, n) ==
    IF n = 0 THEN {<<>>}
    ELSE LET shorter == SeqsUpTo(S, n - 1)
         IN  shorter \cup {Append(q, x) : q \in shorter, x \in S}

\* Catalogs: every listing of up to MaxCatalog distinct definitions.
Catalogs ==
    {c \in SeqsUpTo(PipelineDefs, MaxCatalog) :
        \A i, j \in 1..Len(c) : i # j => c[i] # c[j]}

\* target_name values drawn for a catalog lookup on its own.
Intents == SeqsUpTo({"v", "M", "x"}, MaxIntentLen)

\* The external systems a workflow instance is run against: no definitions,
\* or two of them.
WorkflowCatalogs ==
    { <<>>,
      <<[id |-> 1, name |-> <<"v","M","x">>], [id |-> 2, name |-> <<"V","m">>]>> }

\* Ids the agent can name, in a tool call or in a response: one the drawn
\* catalogs hold and one they do not.
AgentIds == { Str(2), Str(7) }

\* pipeline_id values the agent can pass to multi_agent_pipeline_workflow.
AgentPipelineArgs == AgentIds \cup {NotFound}

\* System.Description values a work item can carry.
Descriptions ==
    { DIV_OPEN \o <<"v","M">> \o DIV_CLOSE,
      DIV_OPEN \o DIV_CLOSE,
      NotFound }

FieldMaps ==
    { [k \in {"System.Title"} |-> <<"t">>] }
    \cup { [k \in {"System.Title", "System.Description"} |->
              IF k = "System.Title" THEN <<"t">> ELSE d] : d \in Descriptions }

Tickets == {None} \cup {Some([id |-> 42, fields |-> f]) : f \in FieldMaps}

WorkItemInputs == { <<"4","2">>, <<"x">> }

\* How the calls to the external system inside one helper's try block go:
\* all return, building the client raises, or the request itself raises.
Net == {"ok", "client_error", "error"}

\* --------------------------------------------------- Azure DevOps helpers
\* _get_azure_devops_connection raises ValueError when the URL or PAT is unset.
ConnectionRaises == ~configured

\* _list_pipelines for a helper that keeps the first catalog it fetched.
CachedListPipelines(net) ==
    IF lookupLog # <<>> /\ lookupLog[1].call.fetched # <<>>
    THEN lookupLog[1].call.fetched
    ELSE IF ConnectionRaises \/ net # "ok" THEN <<>> ELSE catalog

\* build_client.get_definitions inside _list_pipelines' try: the catalog, or []
\* when the connection or the call raised.
_list_pipelines(net) ==
    IF ConnectionRaises \/ net # "ok" THEN <<>> ELSE catalog

\* The work items the tracking system holds, each under its own id.
StoredWorkItems == (IF ticket # None THEN {Val(ticket)} ELSE {}) \cup workitems

\* work_item_client.get_work_items(ids=[int(workitem_id)]) inside
\* _get_workitem_details' try: int() raises on a non-numeric id, the service
\* raises for an id it does not hold; every exception gives [].
_get_workitem_details(workitem_id, net) ==
    IF ConnectionRaises \/ net # "ok" \/ ~IsDecimal(workitem_id) THEN <<>>
    ELSE LET held == {w \in StoredWorkItems : w.id = ParseInt(workitem_id)}
         IN  IF held # {} THEN <<CHOOSE w \in held : TRUE>> ELSE <<>>

\* The external system queues a build only for a definition it holds.
DefinitionExists(id) ==
    IsDecimal(id) /\ \E i \in 1..Len(catalog) : catalog[i].id = ParseInt(id)

\* How one _execute_pipeline call ends: lines 181-182 raised before any
\* request, queue_build raised, or queue_build returned the queued build.
ExecOutcome(id, net) ==
    IF ConnectionRaises \/ net = "client_error" THEN "no_connection"
    ELSE IF net = "ok" /\ DefinitionExists(id) THEN "queued"
    ELSE "request_failed"

\* RequestsSubmitted with a second attempt after a failed request.
RequestsSubmittedWithRetry(outcome) ==
    IF outcome = "no_connection" THEN 0
    ELSE IF outcome = "request_failed" THEN 2 ELSE 1

\* queue_build requests one _execute_pipeline call submits: the single call
\* of line 184, reached only when the connection was built.
RequestsSubmitted(outcome) == IF outcome = "no_connection" THEN 0 ELSE 1

\* AssignedBuildId for a dispatcher that remembers what it queued for a
\* pipeline id and hands the earlier build back.
AssignedBuildIdMemoised(id) ==
    IF \E i \in 1..Len(runs) : runs[i].definition = id
    THEN runs[CHOOSE i \in 1..Len(runs) : runs[i].definition = id].id
    ELSE nextBuildId

\* queued_build.id: the id the build service gives the build that this
\* queue_build request creates, a new one for every request.
AssignedBuildId(id) == nextBuildId

\* _execute_pipeline's return value: the dict {"id", "url"} or None.
_execute_pipeline(id, net) ==
    IF ExecOutcome(id, net) = "queued"
    THEN Some([kind |-> "dict", id |-> AssignedBuildId(id),
               url |-> <<"build", AssignedBuildId(id)>>])
    ELSE None

\* _execute_pipeline's effect on the external system, called by `by`.
ExecutePipelineEffect(id, net, by) ==
    LET outcome == ExecOutcome(id, net)
    IN  /\ dispatchCalls' = dispatchCalls + 1
        /\ requests' = requests + RequestsSubmitted(outcome)
        /\ lastDispatch' = Some([outcome |-> outcome, by |-> by,
                                 returned |-> _execute_pipeline(id, net)])
        /\ IF outcome = "queued"
           THEN /\ runs' = Append(runs, [id |-> AssignedBuildId(id), definition |-> id,
                                         by |-> by])
                /\ nextBuildId' = nextBuildId + 1
           ELSE UNCHANGED <<runs, nextBuildId>>

\* ------------------------------------------------------------ kernel tools
\* NameMatches with the two lower() calls forgotten.
NameMatchesCaseSensitive(target_name, name) == StrIn(target_name, name)

\* The test of line 108: target_name.lower() in pipeline.name.lower()
NameMatches(target_name, name) == StrIn(Lower(target_name), Lower(name))

\* The for loop of get_id_by_name from entry i on: str(id) of the first entry
\* that matches, "NotFound" when the loop runs out.
RECURSIVE ScanPipelines(_, _, _)
ScanPipelines(json_data, target_name, i) ==
    IF i > Len(json_data) THEN NotFound
    ELSE IF NameMatches(target_name, json_data[i].name)
         THEN Str(json_data[i].id)
         ELSE ScanPipelines(json_data, target_name, i + 1)

get_id_by_name(json_data, target_name) == ScanPipelines(json_data, target_name, 1)

\* A formatted message: the f-string's words, its placeholders kept by name,
\* and the values formatted into them, in order.
Msg(text, args) == [text |-> text, args |-> args]

\* What a tool call gives back: a returned value, or the exception it raised.
Returned(v) == [raised |-> FALSE, value |-> v]
Raised(e) == [raised |-> TRUE, value |-> e]

\* obj.id: an attribute of a model object; a dict has no attribute `id`.
GetAttrId(obj) ==
    IF obj.kind = "object" THEN Returned(obj.id) ELSE Raised(<<"AttributeError">>)

\* The kernel tool multi_agent_pipeline_workflow, after its call of
\* _execute_pipeline returned queued_build.
multi_agent_pipeline_workflow(queued_build) ==
    IF queued_build # None
    THEN LET id == GetAttrId(Val(queued_build))
         IN  IF id.raised THEN id
             ELSE Returned(Msg(<<"Pipeline", "triggered", "successfully.", "Build",
                                 "ID:", "{queued_build.id}">>, <<Str(id.value)>>))
    ELSE Returned(Msg(<<"Failed", "to", "trigger", "pipeline.">>, <<>>))

\* -------------------------------------------------------------- activities
\* Lines 229-233, on the list _get_workitem_details returned.
DescriptionOf(description) ==
    IF description # <<>>
    THEN Replace(Replace(DictGet(description[1].fields, "System.Description", <<>>),
                         DIV_OPEN, <<>>), DIV_CLOSE, <<>>)
    ELSE NotFound

\* Activity_RetrieveWorkItem: the description of the first work item fetched,
\* its <div> and </div> removed, or "NotFound" when none was fetched.
Activity_RetrieveWorkItem(workitem_id, net) ==
    DescriptionOf(_get_workitem_details(workitem_id, net))

PIPELINE_ID_COLON == <<"p","i","p","e","l","i","n","e"," ","i","d",":">>

\* The body of activity 2's `async for` for one response: Some(id) when it
\* assigns pipeline_id and breaks, None when it goes on to the next response.
ParseResponse(content) ==
    IF StrIn(PIPELINE_ID_COLON, Lower(content))
    THEN LET start_index == Find(Lower(content), PIPELINE_ID_COLON, 0)
                            + Len(PIPELINE_ID_COLON)
             found == Find(content, <<" ">>, start_index)
             end_index == IF found = -1 THEN Len(content) ELSE found
             potential_id == Strip(Slice(content, start_index, end_index))
         IN  IF IsDigit(potential_id) THEN Some(potential_id) ELSE None
    ELSE IF IsDigit(Strip(content)) THEN Some(Strip(content)) ELSE None

\* Activity 2's loop state a after one more response: pipeline_id assigned
\* and the loop broken when the response carries an id, unchanged otherwise.
HandleResponse(a, content) ==
    LET parsed == ParseResponse(content)
    IN  [pipeline_id |-> IF parsed # None THEN Val(parsed) ELSE a.pipeline_id,
         responses |-> a.responses + 1,
         broke |-> parsed # None]

\* ReportedBuildId with the pipeline id formatted in place of the build id.
ReportedPipelineId(result, id) == id

\* The build id Activity_ExecutePipeline formats into its message: result['id'].
ReportedBuildId(result, id) == Str(result.id)

\* Activity_ExecutePipeline's return value, after _execute_pipeline gave result.
Activity_ExecutePipeline(id, result) ==
    IF result # None
    THEN Msg(<<"Pipeline", "{pipeline_id}", "queued", "successfully.", "Build", "ID:",
               "{result['id']}">>, <<id, ReportedBuildId(Val(result), id)>>)
    ELSE Msg(<<"Failed", "to", "queue", "pipeline", "{pipeline_id}.">>, <<id>>)

\* ----------------------------------------------------- what the agent says
PipelineIdLabel == <<"P","i","p","e","l","i","n","e"," ","I","D",":">>

\* Texts the analyser agent can answer with, for each id it may name.
ResponseTexts ==
    UNION { { d,
              <<" ">> \o d \o <<"\n">>,
              PipelineIdLabel \o <<" ">> \o d,
              PipelineIdLabel \o d,
              PipelineIdLabel \o d \o <<" ", "o", "k">> }
            : d \in AgentIds }
    \cup { <<"n","o","n","e">>, <<>>, <<SUPERSCRIPT_TWO>> }

\* ------------------------------------------------------------ orchestrator
\* yield context.call_activity(...) for activity n: the durable context runs
\* the activity only while the history holds no result for it, and hands the
\* recorded result back to the orchestrator once it does.
Recorded(n) == history[n] # None

\* NeedsRun for an orchestrator that calls the activity outside the durable
\* context: it runs whatever the history holds.
NeedsRunAlways(n) == TRUE

NeedsRun(n) == ~Recorded(n)

\* IsMissing with the `or not x` half forgotten.
IsMissingSentinelOnly(x) == x = NotFound

\* The tests of lines 69 and 78: x == "NotFound" or not x
IsMissing(x) == x = NotFound \/ x = <<>>

\* Whether the orchestrator goes on to call Activity_ExecutePipeline with id.
ProceedsToDispatch(id) == ~IsMissing(id)

\* The orchestrator's return of line 71.
DescriptionNotFound(input) ==
    [status |-> "Failed",
     message |-> Msg(<<"Work", "item", "description", "not", "found", "for:",
                       "{workitem_input}">>, <<input>>)]

\* The orchestrator's return of line 80.
PipelineNotFound(description) ==
    [status |-> "Failed",
     message |-> Msg(<<"Pipeline", "ID", "not", "found", "for", "description:",
                       "{retrieved_description}">>, <<description>>)]

\* The orchestrator's return after activity 3: execution_result whatever it says.
OrchestratorResult(result) == [status |-> "Completed", result |-> result]

Init ==
    /\ catalog \in WorkflowCatalogs
    /\ ticket \in Tickets
    /\ configured \in BOOLEAN
    /\ workitem_input \in WorkItemInputs
    /\ runs = <<>>
    /\ nextBuildId = 11
    /\ requests = 0
    /\ pc = "step1"
    /\ retrieved_description = None
    /\ pipeline_id = None
    /\ execution_result = None
    /\ output = None
    /\ history = [n \in 1..3 |-> None]
    /\ crashes = 0
    /\ abandoned = 0
    /\ toolCalls = 0
    /\ lastTool = None
    /\ analysis = None
    /\ calls = [n \in 1..3 |-> 0]
    /\ lookupCalls = 0
    /\ dispatchCalls = 0
    /\ lastDispatch = None
    /\ OthersIdle
    /\ lastRead = None
    /\ workitems = {}
    /\ inst = <<>>
    /\ received = <<>>

\* Lines 206-233: activity 1 runs and the host records what it returned.
Activity1_Run ==
    /\ pc = "step1"
    /\ NeedsRun(1)
    /\ \E net \in Net :
        history' = [history EXCEPT
                        ![1] = Some(Activity_RetrieveWorkItem(workitem_input, net))]
    /\ calls' = [calls EXCEPT ![1] = @ + 1]
    /\ UNCHANGED <<standalone, world, dispatchState, pc, locals, output, crashes, abandoned, toolCalls,
                   lastTool, analysis, lookupCalls>>

\* AfterStep1 for an orchestrator whose line 71 builds the Failed result
\* without returning it: it goes on to activity 2 whatever step 1 gave.
AfterStep1FallsThrough(r) == "step2"

\* Lines 69-71: where the orchestrator stands after testing activity 1's
\* result: it has returned, or it goes on to call activity 2.
AfterStep1(r) == IF IsMissing(r) THEN "done" ELSE "step2"

\* Lines 66-71: the orchestrator takes activity 1's result and tests it.
Orch_Step1 ==
    /\ pc = "step1"
    /\ Recorded(1)
    /\ LET r == Val(history[1])
       IN  /\ retrieved_description' = Some(r)
           /\ output' = IF IsMissing(r)
                        THEN Some(DescriptionNotFound(workitem_input))
                        ELSE output
           /\ pc' = AfterStep1(r)
    /\ UNCHANGED <<standalone, world, dispatchState, pipeline_id, execution_result, history,
                   crashes, abandoned, toolCalls, lastTool, analysis, calls, lookupCalls>>

\* Lines 238-261: activity 2 is invoked, builds its kernel and agent, and
\* starts the agent with pipeline_id = "NotFound".
Activity2_Start ==
    /\ pc = "step2"
    /\ NeedsRun(2)
    /\ analysis = None
    /\ calls' = [calls EXCEPT ![2] = @ + 1]
    /\ analysis' = Some([pipeline_id |-> NotFound, responses |-> 0, broke |-> FALSE])
    /\ lastTool' = None
    /\ UNCHANGED <<standalone, world, dispatchState, pc, locals, output, history, crashes, abandoned,
                   toolCalls, lookupCalls>>

\* One call of the tool get_id_by_name and what it gives back.
LookupCall(target_name, net) ==
    LET json_data == _list_pipelines(net)
    IN  [tool |-> "get_id_by_name", arg |-> target_name, fetched |-> json_data,
         result |-> Returned(get_id_by_name(json_data, target_name))]

\* The agent of activity 2 is running and its stream is still read.
AgentRuns ==
    /\ analysis # None
    /\ ~Val(analysis).broke

\* The agent calls the kernel tool get_id_by_name (lines 104-112).
Agent_get_id_by_name ==
    /\ AgentRuns
    /\ toolCalls < MaxToolCalls
    /\ \E target_name \in {Val(retrieved_description), <<"x">>}, net \in Net :
        lastTool' = Some(LookupCall(target_name, net))
    /\ toolCalls' = toolCalls + 1
    /\ lookupCalls' = lookupCalls + 1
    /\ UNCHANGED <<standalone, world, dispatchState, pc, locals, output, history, crashes, abandoned,
                   analysis, calls>>

\* The agent calls the kernel tool multi_agent_pipeline_workflow (lines 114-122).
Agent_multi_agent_pipeline_workflow ==
    /\ AgentRuns
    /\ toolCalls < MaxToolCalls
    /\ \E id \in AgentPipelineArgs, net \in Net :
        /\ ExecutePipelineEffect(id, net, "multi_agent_pipeline_workflow")
        /\ lastTool' = Some([tool |-> "multi_agent_pipeline_workflow", arg |-> id,
                             result |-> multi_agent_pipeline_workflow(
                                            _execute_pipeline(id, net))])
    /\ toolCalls' = toolCalls + 1
    /\ UNCHANGED <<standalone, world, pc, locals, output, history, crashes, abandoned, analysis, calls,
                   lookupCalls>>

\* Lines 262-288: the agent streams one response and the loop body handles it.
Agent_Response ==
    /\ AgentRuns
    /\ Val(analysis).responses < MaxResponses
    /\ \E content \in ResponseTexts :
        analysis' = Some(HandleResponse(Val(analysis), content))
    /\ UNCHANGED <<standalone, world, dispatchState, pc, locals, output, history, crashes, abandoned,
                   toolCalls, lastTool, calls, lookupCalls>>

\* Line 290: the loop is over (the stream ended or it broke), activity 2
\* returns pipeline_id and the host records it.
Activity2_Return ==
    /\ analysis # None
    /\ history' = [history EXCEPT ![2] = Some(Val(analysis).pipeline_id)]
    /\ analysis' = None
    /\ lastTool' = None
    /\ UNCHANGED <<standalone, world, dispatchState, pc, locals, output, crashes, abandoned, toolCalls,
                   calls, lookupCalls>>

\* Lines 75-80: the orchestrator takes activity 2's result and tests it.
Orch_Step2 ==
    /\ pc = "step2"
    /\ Recorded(2)
    /\ LET r == Val(history[2])
       IN  /\ pipeline_id' = Some(r)
           /\ IF ProceedsToDispatch(r)
              THEN /\ pc' = "step3"
                   /\ UNCHANGED output
              ELSE /\ output' = Some(PipelineNotFound(Val(retrieved_description)))
                   /\ pc' = "done"
    /\ UNCHANGED <<standalone, world, dispatchState, retrieved_description, execution_result,
                   history, crashes, abandoned, toolCalls, lastTool, analysis, calls, lookupCalls>>

\* Lines 294-305: activity 3 runs and the host records what it returned.
Activity3_Run ==
    /\ pc = "step3"
    /\ NeedsRun(3)
    /\ \E net \in Net :
        LET id == Val(pipeline_id)
        IN  /\ ExecutePipelineEffect(id, net, "Activity_ExecutePipeline")
            /\ history' = [history EXCEPT
                  ![3] = Some(Activity_ExecutePipeline(id, _execute_pipeline(id, net)))]
    /\ calls' = [calls EXCEPT ![3] = @ + 1]
    /\ UNCHANGED <<standalone, world, pc, locals, output, crashes, abandoned, toolCalls, lastTool, analysis,
                   lookupCalls>>

\* Lines 84-87: the orchestrator takes activity 3's result and returns.
Orch_Step3 ==
    /\ pc = "step3"
    /\ Recorded(3)
    /\ execution_result' = Some(Val(history[3]))
    /\ output' = Some(OrchestratorResult(Val(history[3])))
    /\ pc' = "done"
    /\ UNCHANGED <<standalone, world, dispatchState, retrieved_description, pipeline_id, history,
                   crashes, abandoned, toolCalls, lastTool, analysis, calls, lookupCalls>>

\* The durable host restarts before the orchestration returned: what was in
\* memory (the orchestrator's locals, an activity in flight) is gone, the
\* history and the external systems stay, and the orchestrator is replayed
\* from its first line.
HostCrash ==
    /\ pc # "done"
    /\ crashes < MaxCrashes
    /\ crashes' = crashes + 1
    /\ abandoned' = IF analysis # None THEN abandoned + 1 ELSE abandoned
    /\ pc' = "step1"
    /\ retrieved_description' = None
    /\ pipeline_id' = None
    /\ execution_result' = None
    /\ analysis' = None
    /\ lastTool' = None
    /\ UNCHANGED <<standalone, world, dispatchState, output, history, toolCalls, calls, lookupCalls>>

Next ==
    \/ Activity1_Run
    \/ Orch_Step1
    \/ Activity2_Start
    \/ Agent_get_id_by_name
    \/ Agent_multi_agent_pipeline_workflow
    \/ Agent_Response
    \/ Activity2_Return
    \/ Orch_Step2
    \/ Activity3_Run
    \/ Orch_Step3
    \/ HostCrash

Spec == Init /\ [][Next]_vars

\* How far the instance has come: the orchestrator's position, the
\* invocations made, the results recorded, and whether activity 2 is running.
\* Every step of an activity or of the orchestrator changes it.
progress ==
    <<pc, calls, Recorded(1), Recorded(2), Recorded(3), analysis # None>>

\* The host runs every activity the orchestrator scheduled and resumes the
\* orchestrator with each recorded result; an agent whose calls all return
\* ends its stream, so activity 2 returns. The agent's tool calls, its
\* responses and the host's restarts are under no obligation to happen.
Fairness ==
    /\ WF_progress(Activity1_Run)
    /\ WF_progress(Orch_Step1)
    /\ WF_progress(Activity2_Start)
    /\ WF_progress(Activity2_Return)
    /\ WF_progress(Orch_Step2)
    /\ WF_progress(Activity3_Run)
    /\ WF_progress(Orch_Step3)

\* The workflow with its collaborator calls all returning.
SpecLive == Spec /\ Fairness

\* ------------------------------------------- the catalog lookup on its own
\* get_id_by_name applied to every drawn catalog and target_name.
InitLookup ==
    /\ catalog \in Catalogs
    /\ configured \in BOOLEAN
    /\ ticket = None
    /\ workitem_input = <<"x">>
    /\ runs = <<>>
    /\ nextBuildId = 11
    /\ requests = 0
    /\ pc = "lookup"
    /\ retrieved_description = None
    /\ pipeline_id = None
    /\ execution_result = None
    /\ output = None
    /\ history = [n \in 1..3 |-> None]
    /\ crashes = 0
    /\ abandoned = 0
    /\ toolCalls = 0
    /\ lastTool = None
    /\ analysis = None
    /\ calls = [n \in 1..3 |-> 0]
    /\ lookupCalls = 0
    /\ dispatchCalls = 0
    /\ lastDispatch = None
    /\ OthersIdle
    /\ lastRead = None
    /\ workitems = {}
    /\ inst = <<>>
    /\ received = <<>>

Lookup_get_id_by_name ==
    /\ pc = "lookup"
    /\ \E target_name \in Intents, net \in Net :
        lastTool' = Some(LookupCall(target_name, net))
    /\ UNCHANGED <<standalone, world, dispatchState, pc, locals, output, history, crashes, abandoned,
                   toolCalls, analysis, calls, lookupCalls>>

\* list_pipelines of src/app.py: the catalog, or [] when anything inside its
\* try raised.
list_pipelines(net) ==
    IF ConnectionRaises \/ net # "ok" THEN <<>> ELSE catalog

\* get_id_by_name of src/app.py: list_pipelines("", "", "") and the same loop.
app_get_id_by_name(target_name, net) ==
    Returned(get_id_by_name(list_pipelines(net), target_name))

\* get_id_by_name of the second module of src/demo4.py: it calls
\* list_pipelines("") with one argument of the three the function requires,
\* so the call raises TypeError before list_pipelines' try is entered.
second_get_id_by_name(target_name, net) == Raised(<<"TypeError">>)

\* get_id_by_name of src/app.py is called (lines 20-31).
Lookup_app_get_id_by_name ==
    /\ pc = "lookup"
    /\ \E target_name \in Intents, net \in Net :
        lastTool' = Some([tool |-> "app.get_id_by_name", arg |-> target_name,
                          fetched |-> list_pipelines(net),
                          result |-> app_get_id_by_name(target_name, net)])
    /\ UNCHANGED <<standalone, world, dispatchState, pc, locals, output, history,
                   crashes, abandoned, toolCalls, analysis, calls, lookupCalls>>

\* get_id_by_name of the second module of src/demo4.py is called (lines 332-343).
Lookup_second_get_id_by_name ==
    /\ pc = "lookup"
    /\ \E target_name \in Intents, net \in Net :
        lastTool' = Some([tool |-> "second.get_id_by_name", arg |-> target_name,
                          fetched |-> <<>>,
                          result |-> second_get_id_by_name(target_name, net)])
    /\ UNCHANGED <<standalone, world, dispatchState, pc, locals, output, history,
                   crashes, abandoned, toolCalls, analysis, calls, lookupCalls>>

NextLookup ==
    \/ Lookup_get_id_by_name
    \/ Lookup_app_get_id_by_name
    \/ Lookup_second_get_id_by_name

SpecLookup == InitLookup /\ [][NextLookup]_vars

\* ------------------------------------------ the work item readers on their own
WorkItemIds == { <<"4","2">>, <<"7">>, <<"x">> }

\* Stored System.Description values: plain, wrapped, with several tags, and
\* with one tag written around another.
ReaderDescriptions ==
    { DIV_OPEN \o <<"H","e","l","l","o">> \o DIV_CLOSE,
      <<"a">> \o DIV_OPEN \o <<"b">> \o DIV_OPEN \o DIV_CLOSE \o DIV_CLOSE,
      <<"<","d">> \o DIV_OPEN \o <<"i","v",">","x">>,
      <<"<","d">> \o DIV_CLOSE \o <<"i","v",">">>,
      <<"<","/","d">> \o DIV_OPEN \o <<"i","v",">">>,
      <<"H","i">>,
      DIV_OPEN \o DIV_CLOSE,
      NotFound }

ReaderFieldMaps ==
    { [k \in {"System.Title"} |-> <<"t">>] }
    \cup { [k \in {"System.Description"} |-> d] : d \in ReaderDescriptions }
    \cup { [k \in {"System.Title", "System.Description"} |->
              IF k = "System.Title" THEN <<"t">> ELSE d] : d \in ReaderDescriptions }

ReaderTickets == {None} \cup {Some([id |-> 42, fields |-> f]) : f \in ReaderFieldMaps}

\* .fields.get('System.Description', '').replace('<div>', '').replace('</div>', '')
StripDivs(fields) ==
    Replace(Replace(DictGet(fields, "System.Description", <<>>), DIV_OPEN, <<>>),
            DIV_CLOSE, <<>>)

\* The kernel tool get_workflow_detail of src/demo4.py: it calls
\* _get_workitem_details(workflow_id=...), whose only parameter is
\* workitem_id, so the call raises TypeError before anything is fetched.
get_workflow_detail(workflow_id, net) == Raised(<<"TypeError">>)

\* get_workitem_details of src/app.py: the id is passed on as given, and the
\* print loop inside the try reads fields['System.Title'], a KeyError for a
\* work item without a title; every exception gives [].
get_workitem_details(workitem_id, net) ==
    IF ConnectionRaises \/ net # "ok" \/ ~IsDecimal(workitem_id) THEN <<>>
    ELSE IF ticket # None /\ Val(ticket).id = ParseInt(workitem_id)
         THEN IF "System.Title" \in DOMAIN Val(ticket).fields
              THEN <<Val(ticket)>>
              ELSE <<>>
         ELSE <<>>

\* get_workflow_detail of src/app.py: the first work item's description,
\* stripped, or "NotFound".
app_get_workflow_detail(workflow_id, net) ==
    LET json_data == get_workitem_details(workflow_id, net)
    IN  IF json_data # <<>> THEN Returned(StripDivs(json_data[1].fields))
        ELSE Returned(NotFound)

InitReader ==
    /\ catalog = <<>>
    /\ ticket \in ReaderTickets
    /\ configured \in BOOLEAN
    /\ workitem_input = <<"x">>
    /\ runs = <<>>
    /\ nextBuildId = 11
    /\ requests = 0
    /\ pc = "reader"
    /\ retrieved_description = None
    /\ pipeline_id = None
    /\ execution_result = None
    /\ output = None
    /\ history = [n \in 1..3 |-> None]
    /\ crashes = 0
    /\ abandoned = 0
    /\ toolCalls = 0
    /\ lastTool = None
    /\ analysis = None
    /\ calls = [n \in 1..3 |-> 0]
    /\ lookupCalls = 0
    /\ dispatchCalls = 0
    /\ lastDispatch = None
    /\ OthersIdle
    /\ lastRead = None
    /\ workitems = {}
    /\ inst = <<>>
    /\ received = <<>>

otherPrograms ==
    <<repository, pushes, lastCommit, posts, lastPluginCall, lookupLog, stream, frontEnds>>

\* The single workflow instance and the components called on their own, idle.
WorkflowIdle ==
    /\ catalog = <<>>
    /\ ticket = None
    /\ configured = TRUE
    /\ workitem_input = <<"x">>
    /\ runs = <<>>
    /\ nextBuildId = 11
    /\ requests = 0
    /\ retrieved_description = None
    /\ pipeline_id = None
    /\ execution_result = None
    /\ output = None
    /\ history = [n \in 1..3 |-> None]
    /\ crashes = 0
    /\ abandoned = 0
    /\ toolCalls = 0
    /\ lastTool = None
    /\ analysis = None
    /\ calls = [n \in 1..3 |-> 0]
    /\ lookupCalls = 0
    /\ dispatchCalls = 0
    /\ lastDispatch = None
    /\ lastRead = None
    /\ workitems = {}
    /\ inst = <<>>
    /\ received = <<>>

workflowVars ==
    <<world, dispatchState, pc, locals, output, history, crashes, abandoned, toolCalls,
      lastTool, analysis, calls, lookupCalls>>

\* One reader call: which reader, its argument, how the collaborator call
\* went, and what the reader gave back.
ReadCall(reader, workitem_id, net, result) ==
    Some([reader |-> reader, arg |-> workitem_id, net |-> net, result |-> result])

\* Activity_RetrieveWorkItem is called (src/demo4.py lines 205-233).
Reader_Activity_RetrieveWorkItem ==
    /\ pc = "reader"
    /\ \E workitem_id \in WorkItemIds, net \in Net :
        lastRead' = ReadCall("Activity_RetrieveWorkItem", workitem_id, net,
                             Returned(Activity_RetrieveWorkItem(workitem_id, net)))
    /\ UNCHANGED <<workflowVars, workitems, inst, received, otherPrograms>>

\* The kernel tool get_workflow_detail is called (src/demo4.py lines 124-132).
Reader_get_workflow_detail ==
    /\ pc = "reader"
    /\ \E workflow_id \in WorkItemIds, net \in Net :
        lastRead' = ReadCall("get_workflow_detail", workflow_id, net,
                             get_workflow_detail(workflow_id, net))
    /\ UNCHANGED <<workflowVars, workitems, inst, received, otherPrograms>>

\* get_workflow_detail of src/app.py is called (lines 43-52).
Reader_app_get_workflow_detail ==
    /\ pc = "reader"
    /\ \E workflow_id \in WorkItemIds, net \in Net :
        lastRead' = ReadCall("app.get_workflow_detail", workflow_id, net,
                             app_get_workflow_detail(workflow_id, net))
    /\ UNCHANGED <<workflowVars, workitems, inst, received, otherPrograms>>

NextReader ==
    \/ Reader_Activity_RetrieveWorkItem
    \/ Reader_get_workflow_detail
    \/ Reader_app_get_workflow_detail

SpecReader == InitReader /\ [][NextReader]_vars

\* ------------------------------------------- several workflow instances
\* Two orchestrations started for two work items. Each call of the
\* orchestrator function has its own locals, each activity call builds its
\* own kernel and agents (line 94), and the durable host keeps one history
\* per instance; the tracking system and the build service are the same
\* for all.
Instances == {1, 2}

InstanceInputs == <<Str(42), Str(43)>>

InstanceWorkItems ==
    { [id |-> 42, fields |-> [k \in {"System.Description"} |->
                                  DIV_OPEN \o <<"v","M">> \o DIV_CLOSE]],
      [id |-> 43, fields |-> [k \in {"System.Description"} |-> <<"d","b">>]] }

\* Texts the analyser agent answers an instance with.
InstanceResponseTexts == { Str(1), Str(2), <<"n","o","n","e">> }

\* Slot for a workflow whose orchestrator state is kept in one module-level
\* place, whichever instance runs.
SlotShared(i) == 1

\* Where instance i's orchestrator state lives: in its own call frame and
\* its own history.
Slot(i) == i

NewInstance(input) ==
    [workitem_input |-> input, pc |-> "step1", retrieved_description |-> None,
     pipeline_id |-> None, execution_result |-> None, output |-> None,
     history |-> [n \in 1..3 |-> None],
     analysis |-> None]

NothingReceived ==
    [read |-> None, answers |-> <<>>, dispatch |-> None, toolCalls |-> 0]

InitInstances ==
    /\ catalog = <<[id |-> 1, name |-> <<"v","M","x">>], [id |-> 2, name |-> <<"V","m">>]>>
    /\ ticket = None
    /\ workitems = InstanceWorkItems
    /\ configured = TRUE
    /\ workitem_input = <<"x">>
    /\ runs = <<>>
    /\ nextBuildId = 11
    /\ requests = 0
    /\ pc = "instances"
    /\ retrieved_description = None
    /\ pipeline_id = None
    /\ execution_result = None
    /\ output = None
    /\ history = [n \in 1..3 |-> None]
    /\ crashes = 0
    /\ abandoned = 0
    /\ toolCalls = 0
    /\ lastTool = None
    /\ analysis = None
    /\ calls = [n \in 1..3 |-> 0]
    /\ lookupCalls = 0
    /\ dispatchCalls = 0
    /\ lastDispatch = None
    /\ OthersIdle
    /\ lastRead = None
    /\ inst = [i \in Instances |-> NewInstance(InstanceInputs[i])]
    /\ received = [i \in Instances |-> NothingReceived]

\* What an action of one instance leaves alone.
instanceFrame ==
    <<world, pc, locals, output, history, crashes, abandoned, toolCalls, lastTool, analysis,
      calls, lookupCalls, lastRead, workitems, otherPrograms>>

\* Activity 1 runs for instance i and the host records its result.
Inst_Activity1_Run(i) ==
    /\ inst[Slot(i)].pc = "step1"
    /\ inst[Slot(i)].history[1] = None
    /\ \E net \in Net :
        LET description == _get_workitem_details(inst[Slot(i)].workitem_input, net)
        IN  /\ inst' = [inst EXCEPT ![Slot(i)].history[1] =
                                        Some(DescriptionOf(description))]
            /\ received' = [received EXCEPT ![i].read = Some(description)]
    /\ UNCHANGED <<instanceFrame, dispatchState>>

\* Lines 66-71 for instance i.
Inst_Orch_Step1(i) ==
    /\ inst[Slot(i)].pc = "step1"
    /\ inst[Slot(i)].history[1] # None
    /\ LET me == inst[Slot(i)]
           r == Val(me.history[1])
       IN  inst' = [inst EXCEPT ![Slot(i)] =
                [me EXCEPT !.retrieved_description = Some(r),
                           !.pc = IF IsMissing(r) THEN "done" ELSE "step2",
                           !.output = IF IsMissing(r)
                                      THEN Some(DescriptionNotFound(me.workitem_input))
                                      ELSE me.output]]
    /\ UNCHANGED <<instanceFrame, dispatchState, received>>

\* Activity 2 is invoked for instance i and starts its agent.
Inst_Activity2_Start(i) ==
    /\ inst[Slot(i)].pc = "step2"
    /\ inst[Slot(i)].history[2] = None
    /\ inst[Slot(i)].analysis = None
    /\ inst' = [inst EXCEPT ![Slot(i)].analysis =
                    Some([pipeline_id |-> NotFound, responses |-> 0, broke |-> FALSE])]
    /\ UNCHANGED <<instanceFrame, dispatchState, received>>

Inst_AgentRuns(i) ==
    /\ inst[Slot(i)].analysis # None
    /\ ~Val(inst[Slot(i)].analysis).broke

\* Instance i's agent calls the kernel tool multi_agent_pipeline_workflow.
Inst_Agent_multi_agent_pipeline_workflow(i) ==
    /\ Inst_AgentRuns(i)
    /\ received[i].toolCalls < MaxInstanceToolCalls
    /\ \E id \in {Str(2)}, net \in {"ok", "error"} :
        ExecutePipelineEffect(id, net, "multi_agent_pipeline_workflow")
    /\ received' = [received EXCEPT ![i].toolCalls = @ + 1]
    /\ UNCHANGED <<instanceFrame, inst>>

\* Instance i's agent streams one response and the loop body handles it.
Inst_Agent_Response(i) ==
    /\ Inst_AgentRuns(i)
    /\ Val(inst[Slot(i)].analysis).responses < MaxResponses
    /\ \E content \in InstanceResponseTexts :
        LET a == Val(inst[Slot(i)].analysis)
        IN  /\ inst' = [inst EXCEPT ![Slot(i)].analysis =
                                        Some(HandleResponse(a, content))]
            /\ received' = [received EXCEPT ![i].answers = Append(@, content)]
    /\ UNCHANGED <<instanceFrame, dispatchState>>

\* Activity 2 of instance i returns and the host records its result.
Inst_Activity2_Return(i) ==
    /\ inst[Slot(i)].analysis # None
    /\ inst' = [inst EXCEPT ![Slot(i)] =
                [inst[Slot(i)] EXCEPT
                    !.history[2] = Some(Val(inst[Slot(i)].analysis).pipeline_id),
                    !.analysis = None]]
    /\ UNCHANGED <<instanceFrame, dispatchState, received>>

\* Lines 75-80 for instance i.
Inst_Orch_Step2(i) ==
    /\ inst[Slot(i)].pc = "step2"
    /\ inst[Slot(i)].history[2] # None
    /\ LET me == inst[Slot(i)]
           r == Val(me.history[2])
       IN  inst' = [inst EXCEPT ![Slot(i)] =
                [me EXCEPT !.pipeline_id = Some(r),
                           !.pc = IF ProceedsToDispatch(r) THEN "step3" ELSE "done",
                           !.output = IF ProceedsToDispatch(r) THEN me.output
                                      ELSE Some(PipelineNotFound(
                                                    Val(me.retrieved_description)))]]
    /\ UNCHANGED <<instanceFrame, dispatchState, received>>

\* Activity 3 runs for instance i and the host records its result.
Inst_Activity3_Run(i) ==
    /\ inst[Slot(i)].pc = "step3"
    /\ inst[Slot(i)].history[3] = None
    /\ \E net \in Net :
        LET id == Val(inst[Slot(i)].pipeline_id)
            result == _execute_pipeline(id, net)
        IN  /\ ExecutePipelineEffect(id, net, "Activity_ExecutePipeline")
            /\ inst' = [inst EXCEPT ![Slot(i)].history[3] =
                            Some(Activity_ExecutePipeline(id, result))]
            /\ received' = [received EXCEPT ![i].dispatch = Some(result)]
    /\ UNCHANGED instanceFrame

\* Lines 84-87 for instance i.
Inst_Orch_Step3(i) ==
    /\ inst[Slot(i)].pc = "step3"
    /\ inst[Slot(i)].history[3] # None
    /\ LET me == inst[Slot(i)]
       IN  inst' = [inst EXCEPT ![Slot(i)] =
                [me EXCEPT !.execution_result = Some(Val(me.history[3])),
                           !.output = Some(OrchestratorResult(Val(me.history[3]))),
                           !.pc = "done"]]
    /\ UNCHANGED <<instanceFrame, dispatchState, received>>

NextInstances ==
    \E i \in Instances :
        \/ Inst_Activity1_Run(i)
        \/ Inst_Orch_Step1(i)
        \/ Inst_Activity2_Start(i)
        \/ Inst_Agent_multi_agent_pipeline_workflow(i)
        \/ Inst_Agent_Response(i)
        \/ Inst_Activity2_Return(i)
        \/ Inst_Orch_Step2(i)
        \/ Inst_Activity3_Run(i)
        \/ Inst_Orch_Step3(i)

SpecInstances == InitInstances /\ [][NextInstances]_vars

\* ------------------------------------- src/demo.py: commit_to_azure_devops
\* How the Azure DevOps calls of one commit_to_azure_devops call go: each
\* returns or raises; create_push can also return a push without commits.
CommitNets ==
    [project : {"ok", "error"}, repos : {"ok", "error"}, refs : {"ok", "error"},
     item : {"ok", "error"}, push : {"ok", "error", "no_commits"}]

\* Repositories: listed in the project under repo_name or not, the branch's
\* latest commit or None, and whether the branch holds the target file.
Repositories ==
    { [listed |-> l, head |-> h, hasFile |-> f] :
        l \in BOOLEAN, h \in {None, Some(1)}, f \in BOOLEAN }
    \ { [listed |-> l, head |-> None, hasFile |-> TRUE] : l \in BOOLEAN }

\* get_repo_id: the id of the repository named repo_name, None when it is not
\* listed or get_repositories raised.
get_repo_id(net) ==
    IF net.repos = "ok" /\ Val(repository).listed THEN Some("repo") ELSE None

\* get_latest_commit_id: refs[0].object_id, None without refs or on an error.
get_latest_commit_id(net) ==
    IF net.refs = "ok" THEN Val(repository).head ELSE None

\* git_client.get_item inside the inner try: the item, the file-not-found
\* error (its text holds "TF401019"), or another error.
GetItem(net) ==
    IF net.item # "ok" THEN "other_error"
    ELSE IF Val(repository).hasFile THEN "found" ELSE "TF401019"

\* ChangeType left as line 127 set it, the existence check's answer unused.
ChangeTypeFromBranch(item, old_object_id) ==
    IF old_object_id # None THEN "edit" ELSE "add"

\* change_type after lines 127-143, for an existence check that did not
\* end the call.
ChangeType(item, old_object_id) == IF item = "found" THEN "edit" ELSE "add"

\* Whether the call gets as far as create_push.
ReachesPush(net) ==
    /\ net.project = "ok"
    /\ get_repo_id(net) # None
    /\ GetItem(net) # "other_error"

\* commit_to_azure_devops: what it returns, and the push it made if any.
commit_to_azure_devops(net) ==
    IF ~ReachesPush(net) THEN [returned |-> FALSE, push |-> None]
    ELSE LET old_object_id == get_latest_commit_id(net)
             git_push == [change_type |-> ChangeType(GetItem(net), old_object_id),
                          old_object_id |-> old_object_id,
                          existed |-> Val(repository).hasFile]
         IN  IF net.push = "error" THEN [returned |-> FALSE, push |-> None]
             ELSE IF net.push = "no_commits" THEN [returned |-> FALSE, push |-> Some(git_push)]
             ELSE [returned |-> TRUE, push |-> Some(git_push)]

InitCommit ==
    /\ WorkflowIdle
    /\ pc = "commit"
    /\ repository \in {Some(r) : r \in Repositories}
    /\ pushes = <<>>
    /\ lastCommit = None
    /\ posts = 0
    /\ lastPluginCall = None
    /\ lookupLog = <<>>
    /\ stream = <<>>
    /\ FrontEndsIdle

\* One call of commit_to_azure_devops (lines 105-189); an accepted push puts
\* the file on the branch and moves the branch on.
Commit_commit_to_azure_devops ==
    /\ pc = "commit"
    /\ Len(pushes) < MaxPushes
    /\ \E net \in CommitNets :
        LET r == commit_to_azure_devops(net)
        IN  /\ lastCommit' = Some([net |-> net, returned |-> r.returned, raised |-> FALSE,
                                   pushed |-> r.push # None])
            /\ IF r.push # None
               THEN /\ pushes' = Append(pushes, Val(r.push))
                    /\ repository' = Some([Val(repository) EXCEPT
                                             !.hasFile = TRUE,
                                             !.head = Some(Len(pushes) + 2)])
               ELSE UNCHANGED <<pushes, repository>>
    /\ UNCHANGED <<workflowVars, lastRead, workitems, inst, received, posts,
                   lastPluginCall, lookupLog, stream, frontEnds>>

NextCommit == Commit_commit_to_azure_devops

SpecCommit == InitCommit /\ [][NextCommit]_vars

\* ----------------------------------------------- activity 2 on its own
\* Activity_AnalyzeWorkItemAndFindPipeline from line 261 on, with the
\* responses the agent streams kept.
InitAnalyse ==
    /\ catalog = <<>>
    /\ ticket = None
    /\ configured = TRUE
    /\ workitem_input = <<"x">>
    /\ runs = <<>>
    /\ nextBuildId = 11
    /\ requests = 0
    /\ pc = "analyse"
    /\ retrieved_description = None
    /\ pipeline_id = None
    /\ execution_result = None
    /\ output = None
    /\ history = [n \in 1..3 |-> None]
    /\ crashes = 0
    /\ abandoned = 0
    /\ toolCalls = 0
    /\ lastTool = None
    /\ analysis = Some([pipeline_id |-> NotFound, responses |-> 0, broke |-> FALSE])
    /\ calls = [n \in 1..3 |-> 0]
    /\ lookupCalls = 0
    /\ dispatchCalls = 0
    /\ lastDispatch = None
    /\ lastRead = None
    /\ workitems = {}
    /\ inst = <<>>
    /\ received = <<>>
    /\ OthersIdle

\* Lines 262-288: one response is streamed and handled.
Analyse_Response ==
    /\ pc = "analyse"
    /\ AgentRuns
    /\ Val(analysis).responses < MaxResponses
    /\ \E content \in ResponseTexts :
        /\ analysis' = Some(HandleResponse(Val(analysis), content))
        /\ stream' = Append(stream, content)
    /\ UNCHANGED <<world, dispatchState, pc, locals, output, history, crashes, abandoned,
                   toolCalls, lastTool, calls, lookupCalls, lastRead, workitems, inst,
                   received, repository, pushes, lastCommit, posts, lastPluginCall,
                   lookupLog, frontEnds>>

\* Line 290: the loop is over and the activity returns pipeline_id.
Analyse_Return ==
    /\ pc = "analyse"
    /\ analysis # None
    /\ history' = [history EXCEPT ![2] = Some(Val(analysis).pipeline_id)]
    /\ analysis' = None
    /\ UNCHANGED <<world, dispatchState, pc, locals, output, crashes, abandoned, toolCalls,
                   lastTool, calls, lookupCalls, lastRead, workitems, inst, received,
                   otherPrograms>>

NextAnalyse ==
    \/ Analyse_Response
    \/ Analyse_Return

SpecAnalyse == InitAnalyse /\ [][NextAnalyse]_vars

\* ------------------------- src/demo2.py: AzureDevOpsPlugin.execute_pipeline
\* Values of the `parameters` argument: JSON texts and texts that are not.
ParameterTexts ==
    { <<"{","}">>,
      <<"{","\"","a","\"",":","1","}">>,
      <<"1">>,
      <<"{","\"","a","\"",":","}">>,
      <<"{">>,
      <<"x">>,
      <<>> }

\* json.loads on the texts drawn: the value of a number, of {} and of a
\* one-member object; None stands for json.JSONDecodeError.
JsonLoads(text) ==
    IF IsDecimal(text) THEN Some([number |-> ParseInt(text)])
    ELSE IF text = <<"{","}">> THEN Some([members |-> 0])
    ELSE IF /\ Len(text) = 7
            /\ SubSeq(text, 1, 2) = <<"{","\"">>
            /\ SubSeq(text, 4, 5) = <<"\"",":">>
            /\ IsDecimal(<<text[6]>>)
            /\ text[7] = "}"
         THEN Some([members |-> 1])
    ELSE None

\* How the POST goes: a success status with a JSON body, an error status
\* (raise_for_status raises HTTPStatusError), another exception such as a
\* timeout, or a success status whose body is not JSON.
HttpOutcomes == {"ok", "status_error", "network_error", "bad_body"}

\* execute_pipeline: line 72 evaluates json.loads(parameters) while building
\* the payload, before the try of line 74 is entered.
execute_pipeline(id, pipeline_name, parameters, http) ==
    IF JsonLoads(parameters) = None THEN Raised(<<"JSONDecodeError">>)
    ELSE IF http = "ok"
         THEN Returned(Msg(<<"Successfully", "triggered", "pipeline", "'{pipeline_name}'",
                             "(ID:", "{pipeline_id}).", "Run", "URL:", "{run_url}">>,
                           <<pipeline_name, id, <<"N","/","A">>>>))
    ELSE IF http = "status_error"
         THEN Returned(Msg(<<"Error", "executing", "pipeline", "{pipeline_name}",
                             "(ID:", "{pipeline_id}):", "{e.response.status_code}", "-",
                             "{e.response.text}">>,
                           <<pipeline_name, id, Str(500), <<>>>>))
    ELSE IF http = "bad_body"
         THEN Returned(Msg(<<"Invalid", "JSON", "for", "parameters:", "{parameters}">>,
                           <<parameters>>))
    ELSE Returned(Msg(<<"An", "unexpected", "error", "occurred:", "{str(e)}">>, <<<<>>>>))

\* Whether the call gets as far as client.post.
SendsRequest(parameters) == JsonLoads(parameters) # None

InitPlugin ==
    /\ WorkflowIdle
    /\ pc = "plugin"
    /\ repository = None
    /\ pushes = <<>>
    /\ lastCommit = None
    /\ posts = 0
    /\ lastPluginCall = None
    /\ lookupLog = <<>>
    /\ stream = <<>>
    /\ FrontEndsIdle

\* One call of the plugin's execute_pipeline (lines 58-86).
Plugin_execute_pipeline ==
    /\ pc = "plugin"
    /\ posts < MaxPosts
    /\ \E id \in AgentIds, parameters \in ParameterTexts, http \in HttpOutcomes :
        /\ lastPluginCall' =
              Some([pipeline_id |-> id, parameters |-> parameters, http |-> http,
                    sent |-> SendsRequest(parameters),
                    result |-> execute_pipeline(id, <<"V","m">>, parameters, http)])
        /\ posts' = posts + (IF SendsRequest(parameters) THEN 1 ELSE 0)
    /\ UNCHANGED <<workflowVars, lastRead, workitems, inst, received, repository,
                   pushes, lastCommit, lookupLog, stream, frontEnds>>

NextPlugin == Plugin_execute_pipeline

SpecPlugin == InitPlugin /\ [][NextPlugin]_vars

\* --------------------------------- lookups while the catalog changes
\* The catalogs the project holds one after the other.
FreshCatalogs ==
    { <<>>,
      <<[id |-> 1, name |-> <<"v","M","x">>], [id |-> 2, name |-> <<"V","m">>]>>,
      <<[id |-> 2, name |-> <<"V","m">>], [id |-> 1, name |-> <<"v","M","x">>]>>,
      <<[id |-> 3, name |-> <<"d","b">>]>> }

FreshIntents == { <<"v","m">>, <<"x">> }

InitFresh ==
    /\ catalog \in FreshCatalogs
    /\ ticket = None
    /\ configured = TRUE
    /\ workitem_input = <<"x">>
    /\ runs = <<>>
    /\ nextBuildId = 11
    /\ requests = 0
    /\ pc = "fresh"
    /\ retrieved_description = None
    /\ pipeline_id = None
    /\ execution_result = None
    /\ output = None
    /\ history = [n \in 1..3 |-> None]
    /\ crashes = 0
    /\ abandoned = 0
    /\ toolCalls = 0
    /\ lastTool = None
    /\ analysis = None
    /\ calls = [n \in 1..3 |-> 0]
    /\ lookupCalls = 0
    /\ dispatchCalls = 0
    /\ lastDispatch = None
    /\ lastRead = None
    /\ workitems = {}
    /\ inst = <<>>
    /\ received = <<>>
    /\ OthersIdle

freshFrame ==
    <<ticket, configured, workitem_input, dispatchState, pc, locals, output, history,
      crashes, abandoned, toolCalls, lastTool, analysis, calls, lookupCalls, lastRead, workitems,
      inst, received, repository, pushes, lastCommit, posts, lastPluginCall, stream, frontEnds>>

\* One more call of get_id_by_name (lines 104-112), kept with the catalog the
\* project held when it was made.
Fresh_get_id_by_name ==
    /\ pc = "fresh"
    /\ Len(lookupLog) < MaxLookups
    /\ \E target_name \in FreshIntents, net \in Net :
        lookupLog' = Append(lookupLog, [call |-> LookupCall(target_name, net),
                                        net |-> net, held |-> catalog])
    /\ UNCHANGED <<catalog, freshFrame>>

\* Somebody adds, removes or reorders build definitions of the project.
Fresh_CatalogChanges ==
    /\ pc = "fresh"
    /\ Len(lookupLog) < MaxLookups
    /\ catalog' \in FreshCatalogs \ {catalog}
    /\ UNCHANGED <<lookupLog, freshFrame>>

NextFresh ==
    \/ Fresh_get_id_by_name
    \/ Fresh_CatalogChanges

SpecFresh == InitFresh /\ [][NextFresh]_vars

\* ------------------------------------------ src/demo4.py: the HTTP starter
\* A JSON value as Python holds it after json.loads.
JsonNull == [t |-> "null", s |-> <<>>, n |-> 0]
JsonStr(s) == [t |-> "str", s |-> s, n |-> 0]
JsonInt(n) == [t |-> "int", s |-> <<>>, n |-> n]

\* Values the key 'workitem' can carry.
WorkItemValues == {JsonNull, JsonStr(<<>>), JsonStr(Str(42)), JsonInt(0), JsonInt(42)}

\* Request bodies: text that is no JSON, a JSON object with or without the
\* key 'workitem', and JSON that is no object (an array, a string, null).
RequestBodies ==
    { [kind |-> "invalid", has |-> FALSE, workitem |-> JsonNull] }
    \cup { [kind |-> k, has |-> FALSE, workitem |-> JsonNull]
           : k \in {"object", "array", "string", "null"} }
    \cup { [kind |-> "object", has |-> TRUE, workitem |-> v] : v \in WorkItemValues }

\* bool(v): None, "" and 0 are false.
Truthy(v) ==
    IF v.t = "null" THEN FALSE
    ELSE IF v.t = "str" THEN v.s # <<>>
    ELSE v.n # 0

\* An HttpResponse the starter returns, or the exception it lets escape.
HttpResponse(status_code, body) ==
    [raised |-> FALSE, status_code |-> status_code, body |-> body]
Escapes(e) == [raised |-> TRUE, status_code |-> 0, body |-> e]

\* Line 37, req_body.get: only a dict has the method; a list, a str and
\* None raise AttributeError, which `except ValueError` does not catch.
HasGet(body) == body.kind = "object"

\* Lines 32-56. What the starter answers to a request with this body, and
\* the inputs of the orchestrations it started.
http_start_devops_workflow(body) ==
    IF body.kind = "invalid"
    THEN [response |-> HttpResponse(400, "Please pass a 'workitem' in the request body (JSON format)."),
          started |-> <<>>]
    ELSE IF ~HasGet(body)
    THEN [response |-> Escapes("AttributeError"), started |-> <<>>]
    ELSE LET workitem == IF body.has THEN body.workitem ELSE JsonNull
         IN  IF ~Truthy(workitem)
             THEN [response |-> HttpResponse(400, "Please pass a 'workitem' in the request body."),
                   started |-> <<>>]
             ELSE [response |-> HttpResponse(202, "check status"),
                   started |-> <<workitem>>]

InitStarter ==
    /\ WorkflowIdle
    /\ pc = "starter"
    /\ OthersIdle

\* One POST to start_devops_workflow.
Starter_http_start_devops_workflow ==
    /\ Len(httpLog) < MaxRequests
    /\ \E body \in RequestBodies :
        LET r == http_start_devops_workflow(body)
        IN  /\ httpLog' = Append(httpLog, [body |-> body, response |-> r.response,
                                           started |-> r.started])
            /\ starts' = starts \o r.started
    /\ UNCHANGED <<workflowVars, lastRead, workitems, inst, received, repository, pushes,
                   lastCommit, posts, lastPluginCall, lookupLog, stream, session>>

NextStarter == Starter_http_start_devops_workflow

SpecStarter == InitStarter /\ [][NextStarter]_vars

\* --------------------------------- src/demo1.py: the interactive workflow
\* Build definitions the project can hold; the service chooses the ids.
Demo1Defs ==
    { [id |-> 0, name |-> <<"d","b">>],
      [id |-> 1, name |-> <<"V","m">>],
      [id |-> 2, name |-> <<"v","M","x">>] }

Demo1Catalogs == SeqsUpTo(Demo1Defs, MaxCatalog)

\* What the user types at the prompt.
InputTexts == { Str(0), Str(1), Str(2), Str(7), <<" ", "1">>, <<"x">>, <<>> }

\* Lines 7-24, list_pipelines: the definitions fetched, [] when anything raised.
demo1_list_pipelines(net) ==
    IF ConnectionRaises \/ net # "ok" THEN <<>> ELSE catalog

\* Lines 26-42, execute_pipeline: whether queue_build returned a build.
demo1_execute_pipeline(id, net) ==
    /\ ~ConnectionRaises
    /\ net = "ok"
    /\ \E i \in 1..Len(catalog) : catalog[i].id = id

\* int(text): surrounding whitespace dropped, then decimal digits; None for
\* the ValueError of line 65.
IntOf(text) ==
    IF IsDecimal(Strip(text)) THEN Some(ParseInt(Strip(text))) ELSE None

\* InCatalog for a workflow that takes whatever number is typed.
InCatalogAlways(id, pipelines) == TRUE

\* Line 62: pipeline_id in [pipeline.id for pipeline in pipelines]
InCatalog(id, pipelines) == \E i \in 1..Len(pipelines) : pipelines[i].id = id

\* Lines 60-66, one pass of the loop body on what was typed: pipeline_id
\* afterwards. A ValueError leaves it as it was.
AfterInput(pipeline_id_before, text, pipelines) ==
    LET n == IntOf(text)
    IN  IF n = None THEN pipeline_id_before
        ELSE IF InCatalog(Val(n), pipelines) THEN n ELSE None

\* Line 59, `while not pipeline_id`: None and 0 are both false.
LoopGoesOn(id) == id = None \/ Val(id) = 0

InitDemo1 ==
    /\ WorkflowIdle
    /\ pc = "demo1"
    /\ OthersIdle

\* The workflow is called (lines 46-50) in a project the service holds.
Demo1_Start ==
    /\ session = None
    /\ \E c \in Demo1Catalogs, conf \in BOOLEAN :
        /\ catalog' = c
        /\ configured' = conf
    /\ session' = Some([at |-> "fetch", pipelines |-> <<>>, pipeline_id |-> None,
                        prompts |-> 0, inputs |-> <<>>, executed |-> <<>>])
    /\ UNCHANGED <<ticket, workitem_input, dispatchState, pc, locals, output, history,
                   crashes, abandoned, toolCalls, lastTool, analysis, calls, lookupCalls,
                   lastRead, workitems, inst, received, repository, pushes, lastCommit,
                   posts, lastPluginCall, lookupLog, stream, httpLog, starts>>

demo1Frame ==
    <<world, dispatchState, pc, locals, output, history, crashes, abandoned, toolCalls,
      lastTool, analysis, calls, lookupCalls, lastRead, workitems, inst, received,
      repository, pushes, lastCommit, posts, lastPluginCall, lookupLog, stream,
      httpLog, starts>>

\* Lines 51-55: step 1 fetches the pipelines and returns when there are none.
Demo1_ListPipelines ==
    /\ session # None
    /\ Val(session).at = "fetch"
    /\ \E net \in Net :
        LET pipelines == demo1_list_pipelines(net)
        IN  session' = Some([Val(session) EXCEPT
                                !.pipelines = pipelines,
                                !.at = IF pipelines = <<>> THEN "returned" ELSE "prompt"])
    /\ UNCHANGED demo1Frame

\* Lines 58-66: one prompt, and the loop test that follows it.
Demo1_Input ==
    /\ session # None
    /\ Val(session).at = "prompt"
    /\ Val(session).prompts < MaxPrompts
    /\ \E text \in InputTexts :
        LET id == AfterInput(Val(session).pipeline_id, text, Val(session).pipelines)
        IN  session' = Some([Val(session) EXCEPT
                                !.pipeline_id = id,
                                !.prompts = @ + 1,
                                !.inputs = Append(@, [text |-> text,
                                                      again |-> LoopGoesOn(id)]),
                                !.at = IF LoopGoesOn(id) THEN "prompt" ELSE "trigger"])
    /\ UNCHANGED demo1Frame

\* Lines 68-75: step 3 calls execute_pipeline with the chosen id and returns.
Demo1_Trigger ==
    /\ session # None
    /\ Val(session).at = "trigger"
    /\ \E net \in Net :
        session' = Some([Val(session) EXCEPT
                            !.executed = Append(@, [id |-> Val(Val(session).pipeline_id),
                                                    queued |-> demo1_execute_pipeline(
                                                        Val(Val(session).pipeline_id), net)]),
                            !.at = "returned"])
    /\ UNCHANGED demo1Frame

NextDemo1 ==
    \/ Demo1_Start
    \/ Demo1_ListPipelines
    \/ Demo1_Input
    \/ Demo1_Trigger

SpecDemo1 == InitDemo1 /\ [][NextDemo1]_vars

\* ================================================================== claims

\* Two characters are the same letter, whatever their case.
SameLetter(a, b) ==
    a = b \/ \E i \in 1..Len(UPPER) : {a, b} = {UPPER[i], LOWER[i]}

\* name contains s at some offset, compared letter by letter without case.
ContainsIgnoringCase(name, s) ==
    \E k \in 0..(Len(name) - Len(s)) :
        \A j \in 1..Len(s) : SameLetter(name[k + j], s[j])

\* The entries of catalog C whose name contains s, by position.
MatchingEntries(C, s) == {i \in 1..Len(C) : ContainsIgnoringCase(C[i].name, s)}

LookupMade == lastTool # None /\ Val(lastTool).tool = "get_id_by_name"

\* C1: every get_id_by_name call returns, without raising, the id of the
\* first entry of the fetched catalog whose name contains target_name
\* case-insensitively, and "NotFound" when no entry does or the catalog is
\* empty; for the empty target_name over a non-empty catalog that is the
\* first entry. The catalog fetched is the external one, or [] when the
\* fetch failed.
C1_LookupReturnsFirstMatch ==
    LookupMade =>
        LET C == Val(lastTool).fetched
            s == Val(lastTool).arg
            r == Val(lastTool).result
            M == MatchingEntries(C, s)
        IN  /\ C \in {catalog, <<>>}
            /\ ~r.raised
            /\ IF M = {} THEN r.value = NotFound
               ELSE /\ IsDecimal(r.value)
                    /\ ParseInt(r.value) = C[Min(M)].id
            /\ (s = <<>> /\ C # <<>>) => ParseInt(r.value) = C[1].id
            /\ C = <<>> => r.value = NotFound

\* C1 witness: a lookup where two entries match, the chosen one only
\* when case is ignored.
C1_Witness ==
    /\ LookupMade
    /\ LET C == Val(lastTool).fetched
           s == Val(lastTool).arg
           M == MatchingEntries(C, s)
       IN  /\ Cardinality(M) >= 2
           /\ s # <<>>
           /\ ~StrIn(s, C[Min(M)].name)
           /\ Val(lastTool).result.value = Str(C[Min(M)].id)

\* A run the dispatch step (activity 3) queued.
QueuedByStep3(i) == runs[i].by = "Activity_ExecutePipeline"

Terminal == output # None

\* C2: a failed dispatch in step 3 ends the workflow Failed, and Completed is
\* reported only when step 3 queued a run.
C2_FailedDispatchEndsFailed ==
    Terminal =>
        /\ (/\ Recorded(3)
            /\ ~\E i \in 1..Len(runs) : QueuedByStep3(i))
           => Val(output).status = "Failed"
        /\ Val(output).status = "Completed"
           => \E i \in 1..Len(runs) : QueuedByStep3(i)

\* C3: a workflow instance creates at most one pipeline run, and only its
\* dispatch step submits run requests.
C3_AtMostOneRunOnlyFromDispatchStep ==
    /\ Len(runs) <= 1
    /\ \A i \in 1..Len(runs) : QueuedByStep3(i)

\* The tracking system holds the input's work item.
WorkItemExists ==
    /\ IsDecimal(workitem_input)
    /\ ticket # None
    /\ Val(ticket).id = ParseInt(workitem_input)

\* The work item carries a description field.
WorkItemHasDescription ==
    /\ WorkItemExists
    /\ "System.Description" \in DOMAIN Val(ticket).fields

\* The words "not found", one after the other, in a message's text.
MentionsNotFound(m) ==
    \E i \in 1..(Len(m.text) - 1) : m.text[i] = "not" /\ m.text[i + 1] = "found"

\* C4: when the work item does not exist or has no description, no catalog
\* lookup and no dispatch is ever made (activities 2 and 3 and the tools
\* included), and the workflow ends Failed with a reason saying "not found".
C4_NoWorkItemNoLookupNoDispatch ==
    ~WorkItemHasDescription =>
        /\ lookupCalls = 0
        /\ dispatchCalls = 0
        /\ requests = 0
        /\ calls[2] = 0
        /\ calls[3] = 0
        /\ pc \in {"step1", "done"}
        /\ Terminal => /\ Val(output).status = "Failed"
                       /\ MentionsNotFound(Val(output).message)

\* C4 witness: the work item exists without a description field, the reader
\* reached the tracking system, and the workflow has ended.
C4_Witness ==
    /\ WorkItemExists
    /\ ~WorkItemHasDescription
    /\ configured
    /\ calls[1] = 1
    /\ Val(history[1]) = <<>>
    /\ Terminal
    /\ Val(output).status = "Failed"

\* A step result that says nothing was found: "NotFound" or the empty string.
ResultMissing(x) == x \in {NotFound, <<>>}

\* C5: when the resolution step yields "NotFound" or an empty result, the
\* workflow ends Failed and no dispatch was made for the instance.
C5_NoPipelineNoDispatch ==
    (Recorded(2) /\ ResultMissing(Val(history[2]))) =>
        /\ dispatchCalls = 0
        /\ Len(runs) = 0
        /\ Terminal => Val(output).status = "Failed"

\* C6: when step 3 queued a run, the workflow ends Completed and its result
\* names the pipeline and the build id the external system gave that very
\* run, not the id of any other run.
C6_CompletedCarriesQueuedRunId ==
    \A i \in 1..Len(runs) :
        (QueuedByStep3(i) /\ Terminal) =>
            /\ Val(output).status = "Completed"
            /\ LET m == Val(output).result
               IN  /\ Len(m.args) = 2
                   /\ m.args[1] = runs[i].definition
                   /\ IsDecimal(m.args[2])
                   /\ ParseInt(m.args[2]) = runs[i].id
                   /\ m.text[Len(m.text) - 1] = "ID:"

\* C6 witness: a Completed workflow whose step 3 queued the second run of
\* the external system, an earlier run holding another id.
C6_Witness ==
    /\ Terminal
    /\ Val(output).status = "Completed"
    /\ Len(runs) = 2
    /\ ~QueuedByStep3(1)
    /\ QueuedByStep3(2)
    /\ runs[1].id # runs[2].id

\* C7: the orchestrator's fields are set in the order description,
\* pipelineId, dispatchResult (a later one is never set while an earlier one
\* is None), so the lookup is never invoked before the read recorded a
\* description, and the dispatcher never before the resolution recorded a
\* pipeline id.
C7_FieldsPopulatedInOrder ==
    /\ pipeline_id # None => retrieved_description # None
    /\ execution_result # None => pipeline_id # None
    /\ pipeline_id # None => ~ResultMissing(Val(retrieved_description))
    /\ execution_result # None => ~ResultMissing(Val(pipeline_id))
    /\ calls[2] > 0 => (Recorded(1) /\ ~ResultMissing(Val(history[1])))
    /\ lookupCalls > 0 => (Recorded(1) /\ ~ResultMissing(Val(history[1])))
    /\ calls[3] > 0 => (Recorded(2) /\ ~ResultMissing(Val(history[2])))
    /\ dispatchCalls > 0 => (Recorded(2) /\ ~ResultMissing(Val(history[2])))

\* C8: once an activity's result is recorded, no step of the system invokes
\* that activity again or changes the record, whatever the host's restarts;
\* the orchestrator's fields are the recorded results; and after a recorded
\* dispatch no further run request is made.
C8_ResumeDoesNotRepeatRecordedSteps ==
    [][/\ \A n \in 1..3 :
            Recorded(n) => (calls'[n] = calls[n] /\ history'[n] = history[n])
       /\ Recorded(3) => (runs' = runs /\ requests' = requests)
       /\ retrieved_description' # None => retrieved_description' = history'[1]
       /\ pipeline_id' # None => pipeline_id' = history'[2]
       /\ execution_result' # None => execution_result' = history'[3]]_vars

\* C8 witness: the host restarted after the dispatch was recorded, and the
\* replay has handed step 1's recorded result back and stands before step 2.
C8_Witness ==
    /\ crashes > 0
    /\ pc = "step2"
    /\ Recorded(3)
    /\ retrieved_description = history[1]
    /\ calls = [n \in 1..3 |-> 1]
    /\ Len(runs) >= 1

DispatchToolCalled ==
    lastTool # None /\ Val(lastTool).tool = "multi_agent_pipeline_workflow"

\* C9: a dispatch call never raises: the tool multi_agent_pipeline_workflow
\* gives back a result naming the build when a run was queued and a failure
\* text when none was.
C9_DispatchNeverRaises ==
    DispatchToolCalled =>
        /\ ~Val(lastTool).result.raised
        /\ Val(lastDispatch).outcome = "queued"
           => Val(lastTool).result.value.args = <<Str(runs[Len(runs)].id)>>
        /\ Val(lastDispatch).outcome # "queued"
           => Val(lastTool).result.value.text[1] = "Failed"

\* A step whose recorded result is a failure.
FailedStep(n) ==
    /\ Recorded(n)
    /\ IF n = 3 THEN ~\E i \in 1..Len(runs) : QueuedByStep3(i)
       ELSE ResultMissing(Val(history[n]))

\* Once a step has failed, nothing is invoked any more.
NoRetryAfterFailure ==
    (\E n \in 1..3 : FailedStep(n)) =>
        /\ calls' = calls
        /\ dispatchCalls' = dispatchCalls
        /\ requests' = requests
        /\ runs' = runs

\* C10 as stated: every dispatcher call submits exactly one run request, and
\* a failed step is never retried.
C10_ExactlyOneRequestPerCall ==
    [][/\ dispatchCalls' # dispatchCalls
          => (dispatchCalls' = dispatchCalls + 1 /\ requests' = requests + 1)
       /\ NoRetryAfterFailure]_vars

\* C10 amended: every dispatcher call submits at most one run request, one
\* when the call got as far as queue_build and none when building the
\* connection or the client raised first; and a failed step is never retried.
C10_AtMostOneRequestPerCall ==
    [][/\ dispatchCalls' # dispatchCalls
          => /\ dispatchCalls' = dispatchCalls + 1
             /\ requests' = requests
                  + (IF Val(lastDispatch').outcome = "no_connection" THEN 0 ELSE 1)
             /\ Len(runs') <= Len(runs) + 1
       /\ dispatchCalls' = dispatchCalls => (requests' = requests /\ runs' = runs)
       /\ NoRetryAfterFailure]_vars

\* C10 witness: step 3's dispatcher call ended before any request was
\* submitted, and the workflow has returned.
C10_Witness ==
    /\ Terminal
    /\ lastDispatch # None
    /\ Val(lastDispatch).outcome = "no_connection"
    /\ Val(lastDispatch).by = "Activity_ExecutePipeline"
    /\ dispatchCalls = 1
    /\ requests = 0

\* C11: every successful dispatcher call creates one more run and returns
\* that run's identifier, which no earlier run carries, also when an earlier
\* call was made with the same pipeline id.
C11_RepeatedDispatchCreatesDistinctRuns ==
    [][(/\ dispatchCalls' # dispatchCalls
        /\ Val(lastDispatch').outcome = "queued")
       => /\ Len(runs') = Len(runs) + 1
          /\ SubSeq(runs', 1, Len(runs)) = runs
          /\ Val(Val(lastDispatch').returned).id = runs'[Len(runs')].id
          /\ \A i \in 1..Len(runs) : runs[i].id # runs'[Len(runs')].id]_vars

\* C11 witness: two runs of the same pipeline id, the second call's returned
\* identifier differing from the first run's.
C11_Witness ==
    /\ Len(runs) = 2
    /\ runs[1].definition = runs[2].definition
    /\ runs[1].id # runs[2].id
    /\ lastDispatch # None
    /\ Val(lastDispatch).returned # None
    /\ Val(Val(lastDispatch).returned).id = runs[2].id

\* The tracking system holds the work item a reader call asked for, with a
\* description field.
ReadTicketHasDescription ==
    /\ IsDecimal(Val(lastRead).arg)
    /\ ticket # None
    /\ Val(ticket).id = ParseInt(Val(lastRead).arg)
    /\ "System.Description" \in DOMAIN Val(ticket).fields

\* The collaborator call of a reader call failed.
ReadFailed == ~configured \/ Val(lastRead).net # "ok"

\* C12: no reader call raises; every reader returns "NotFound" when the work
\* item does not exist, has no description field, or the collaborator call
\* failed, and so returns a description only for an existing work item with a
\* description.
C12_ReaderReturnsNotFoundNeverRaises ==
    lastRead # None =>
        /\ ~Val(lastRead).result.raised
        /\ (~ReadTicketHasDescription \/ ReadFailed)
           => Val(lastRead).result.value = NotFound

\* A call of any get_id_by_name of the repository was made.
AnyLookupMade ==
    /\ lastTool # None
    /\ Val(lastTool).tool \in {"get_id_by_name", "app.get_id_by_name",
                               "second.get_id_by_name"}

\* C13: no get_id_by_name call of any variant raises, and a call whose catalog
\* fetch gave nothing (collaborator error included) returns "NotFound".
C13_LookupNeverRaises ==
    AnyLookupMade =>
        /\ ~Val(lastTool).result.raised
        /\ Val(lastTool).fetched = <<>> => Val(lastTool).result.value = NotFound

\* A reader call that found the work item and returned its description.
ReadReturnedDescription ==
    /\ lastRead # None
    /\ ~Val(lastRead).result.raised
    /\ ReadTicketHasDescription
    /\ ~ReadFailed
    /\ Val(lastRead).result.value # NotFound

HELLO == <<"H","e","l","l","o">>

\* C14: the description a reader returns contains neither "<div>" nor
\* "</div>", and the stored "<div>Hello</div>" is read back as "Hello".
C14_ReturnedDescriptionHasNoDivTags ==
    ReadReturnedDescription =>
        LET stored == Val(ticket).fields["System.Description"]
            value == Val(lastRead).result.value
        IN  /\ ~StrIn(DIV_OPEN, value)
            /\ ~StrIn(DIV_CLOSE, value)
            /\ stored = DIV_OPEN \o HELLO \o DIV_CLOSE => value = HELLO

\* What activity 2 returns when the agent's answers are `answers`: the id of
\* the first answer that carries one, or "NotFound".
RECURSIVE AloneStep2(_)
AloneStep2(answers) ==
    IF answers = <<>> THEN NotFound
    ELSE IF ParseResponse(Head(answers)) # None THEN Val(ParseResponse(Head(answers)))
         ELSE AloneStep2(Tail(answers))

\* The recorded results and the return value of an instance that runs alone
\* on `input` and is answered r by its collaborators, as far as r goes.
AloneHistory(r) ==
    [n \in 1..3 |->
        IF n = 1 THEN (IF r.read = None THEN None ELSE Some(DescriptionOf(Val(r.read))))
        ELSE IF n = 2 THEN Some(AloneStep2(r.answers))
        ELSE IF r.dispatch = None THEN None
             ELSE Some(Activity_ExecutePipeline(AloneStep2(r.answers), Val(r.dispatch)))]

AloneOutput(input, r) ==
    LET h == AloneHistory(r)
    IN  IF IsMissing(Val(h[1])) THEN DescriptionNotFound(input)
        ELSE IF IsMissing(Val(h[2])) THEN PipelineNotFound(Val(h[1]))
        ELSE OrchestratorResult(Val(h[3]))

\* C15: under every interleaving, what an instance has recorded for its
\* steps and what it returns are what it records and returns when it runs
\* alone and its collaborators give it the same answers; its input is its own.
C15_InstancesDoNotInterfere ==
    inst # <<>> =>
        \A i \in Instances :
            LET me == inst[i]
                r == received[i]
            IN  /\ me.workitem_input = InstanceInputs[i]
                /\ me.history[1] # None => me.history[1] = AloneHistory(r)[1]
                /\ (me.history[1] = None) = (r.read = None)
                /\ me.history[2] # None => me.history[2] = AloneHistory(r)[2]
                /\ r.answers # <<>> => (me.analysis # None \/ me.history[2] # None)
                /\ me.history[3] # None => me.history[3] = AloneHistory(r)[3]
                /\ (me.history[3] = None) = (r.dispatch = None)
                /\ me.output # None => Val(me.output) = AloneOutput(me.workitem_input, r)
                /\ me.retrieved_description # None
                   => me.retrieved_description = AloneHistory(r)[1]
                /\ me.pipeline_id # None => me.pipeline_id = AloneHistory(r)[2]

\* C15 witness: both instances ran to Completed with their steps interleaved:
\* the second queued its run before the first, each for its own pipeline.
C15_Witness ==
    /\ inst # <<>>
    /\ \A i \in Instances : /\ inst[i].output # None
                            /\ Val(inst[i].output).status = "Completed"
    /\ Len(runs) = 2
    /\ inst[1].retrieved_description # inst[2].retrieved_description
    /\ inst[1].pipeline_id = Some(Str(1))
    /\ inst[2].pipeline_id = Some(Str(2))
    /\ runs[1].definition = Str(2)
    /\ runs[2].definition = Str(1)
    /\ Val(inst[1].history[3]).args = <<Str(1), Str(runs[2].id)>>
    /\ Val(inst[2].history[3]).args = <<Str(2), Str(runs[1].id)>>

\* C16: every push commit_to_azure_devops makes has change type "edit" when
\* the file was on the branch and "add" when it was not; a call that did not
\* find the repository, or whose existence check failed with another error,
\* returns False and pushes nothing; True is returned only after a push; and
\* no call raises.
C16_CommitEditsExistingAddsNew ==
    /\ \A k \in 1..Len(pushes) :
            /\ pushes[k].change_type = "edit" <=> pushes[k].existed
            /\ pushes[k].change_type = "add" <=> ~pushes[k].existed
    /\ lastCommit # None =>
        LET c == Val(lastCommit)
        IN  /\ ~c.raised
            /\ c.returned => c.pushed
            /\ (~Val(repository).listed \/ c.net.item = "error")
               => (~c.returned /\ ~c.pushed)

\* C16 witness: a first call added the file to a branch that had commits, a
\* second call edited it and returned True.
C16_Witness ==
    /\ Len(pushes) = 2
    /\ pushes[1].change_type = "add"
    /\ pushes[1].old_object_id # None
    /\ pushes[2].change_type = "edit"
    /\ lastCommit # None
    /\ Val(lastCommit).returned

\* content is "Pipeline ID: " followed by the digit string N, upper or lower
\* case, with nothing or a space after it.
SaysPipelineId(content, N) ==
    LET said == PIPELINE_ID_COLON \o <<" ">> \o N
    IN  /\ Len(content) >= Len(said)
        /\ Lower(SubSeq(content, 1, Len(said))) = said
        /\ Len(content) > Len(said) => content[Len(said) + 1] = " "

\* C17: when the agent's response is "Pipeline ID: N" for a digit string N,
\* the activity returns N.
C17_PipelineIdParsedFromResponse ==
    (pc = "analyse" /\ Recorded(2) /\ stream # <<>>) =>
        \A N \in AgentIds :
            SaysPipelineId(stream[1], N) => Val(history[2]) = N

\* C18: no call of the plugin's execute_pipeline raises; for parameters that
\* are not JSON it returns "Invalid JSON for parameters: <parameters>" and
\* sends nothing; for an error status it returns an error text; and it returns
\* "Successfully triggered pipeline ..." only after a successful POST.
C18_PluginExecuteNeverRaises ==
    lastPluginCall # None =>
        LET c == Val(lastPluginCall)
        IN  /\ ~c.result.raised
            /\ JsonLoads(c.parameters) = None
               => /\ c.result.value.text[1] = "Invalid"
                  /\ c.result.value.args = <<c.parameters>>
                  /\ ~c.sent
            /\ (JsonLoads(c.parameters) # None /\ c.http = "status_error")
               => c.result.value.text[1] = "Error"
            /\ c.result.value.text[1] = "Successfully" => (c.sent /\ c.http = "ok")

\* C19: every get_id_by_name call works on the catalog the project holds at
\* the time of that call: a call whose fetch succeeded returns the first
\* match of that catalog, whatever earlier calls fetched or returned.
C19_LookupReadsCurrentCatalog ==
    \A k \in 1..Len(lookupLog) :
        LET e == lookupLog[k]
            M == MatchingEntries(e.held, e.call.arg)
        IN  /\ e.call.fetched = (IF e.net = "ok" /\ configured THEN e.held ELSE <<>>)
            /\ (e.net = "ok" /\ configured) =>
                 e.call.result.value =
                    (IF M = {} THEN NotFound ELSE Str(e.held[Min(M)].id))

\* C19 witness: two calls with the same target_name, the catalog changed in
\* between, and the second call answers from the new catalog.
C19_Witness ==
    /\ Len(lookupLog) = 2
    /\ lookupLog[1].call.arg = lookupLog[2].call.arg
    /\ lookupLog[1].net = "ok"
    /\ lookupLog[2].net = "ok"
    /\ lookupLog[1].held # lookupLog[2].held
    /\ lookupLog[1].call.result.value = Str(1)
    /\ lookupLog[2].call.result.value = Str(2)
    /\ lookupLog[2].call.fetched = catalog

\* Activity invocations the host made for the workflow instance so far.
ActivityInvocations == calls[1] + calls[2] + calls[3]

\* C20: a workflow instance whose collaborator calls all return eventually
\* returns; what it returns has status Completed or Failed and is never
\* replaced; when no invocation was cut by a restart before it returned, at
\* most three activity invocations were made, each activity at most once;
\* and once the status is returned the instance takes no further step.
C20_ReachesOneTerminalStatusWithinThreeActivities ==
    /\ <>Terminal
    /\ [](Terminal =>
            /\ pc = "done"
            /\ Val(output).status \in {"Completed", "Failed"})
    /\ [](/\ calls[1] <= 1
          /\ calls[2] <= 1 + abandoned
          /\ calls[3] <= 1
          /\ abandoned = 0 => ActivityInvocations <= 3)
    /\ [][~Terminal]_vars

\* C20 witness: an instance that returned Completed after exactly three
\* activity invocations, the host having restarted on the way.
C20_Witness ==
    /\ Terminal
    /\ Val(output).status = "Completed"
    /\ ActivityInvocations = 3
    /\ crashes > 0
    /\ abandoned = 0

\* C21: whatever the agent answered, activity 2 returns "NotFound" or a
\* non-empty string of decimal digits only, and the orchestrator invokes the
\* dispatch activity only with such an all-decimal pipeline id.
C21_AnalysisReturnsNotFoundOrDecimalId ==
    /\ Recorded(2) =>
         \/ Val(history[2]) = NotFound
         \/ IsDecimal(Val(history[2]))
    /\ calls[3] > 0 => IsDecimal(Val(history[2]))

\* The body is a JSON object whose 'workitem' is there and not empty.
HasWorkItem(body) == body.kind = "object" /\ body.has /\ Truthy(body.workitem)

\* C22: a request whose body is JSON with a non-empty 'workitem' starts
\* exactly one orchestration, with that value as its input; a request whose
\* body is no valid JSON, or in which 'workitem' is missing or empty, is
\* answered with status 400 and starts no orchestration.
C22_StarterStartsOneOrAnswers400 ==
    \A k \in 1..Len(httpLog) :
        LET e == httpLog[k]
        IN  IF HasWorkItem(e.body)
            THEN /\ ~e.response.raised
                 /\ e.started = <<e.body.workitem>>
            ELSE /\ ~e.response.raised
                 /\ e.response.status_code = 400
                 /\ e.started = <<>>

\* The ids of the pipelines the interactive workflow fetched in step 1.
FetchedIds == { Val(session).pipelines[i].id : i \in 1..Len(Val(session).pipelines) }

\* The interactive workflow got past step 1.
Fetched == session # None /\ Val(session).at # "fetch"

\* C23: the interactive workflow calls execute_pipeline at most once, and
\* only with the id of a pipeline of the catalog it fetched in step 1; when
\* that catalog is empty or its fetch failed, it returns without a prompt
\* and without a call of execute_pipeline.
C23_TriggersAtMostOnceFromFetchedCatalog ==
    session # None =>
        LET w == Val(session)
        IN  /\ Len(w.executed) <= 1
            /\ \A k \in 1..Len(w.executed) : w.executed[k].id \in FetchedIds
            /\ (Fetched /\ w.pipelines = <<>>) =>
                 /\ w.at = "returned"
                 /\ w.prompts = 0
                 /\ w.executed = <<>>

\* C23 witness: after an id outside the catalog was turned down, the
\* workflow called execute_pipeline once, with an id of the fetched catalog.
C23_Witness ==
    /\ session # None
    /\ Val(session).at = "returned"
    /\ Len(Val(session).executed) = 1
    /\ Val(session).executed[1].id \in FetchedIds
    /\ Len(Val(session).inputs) = 2
    /\ Val(session).inputs[1].text = Str(7)

====
